---- MODULE Spec2Model ----
(***************************************************************************)
(* RGB+W LED generic driver (leds-rgbw-generic.c): the duty-cycle mapper,  *)
(* the soft-PWM hrtimer callback and the four effect hrtimer callbacks,    *)
(* together with the class-device operations that drive them.              *)
(*                                                                         *)
(* rgbw.h and the class-device core (the sysfs layer that stores a         *)
(* brightness and switches effects on and off) are not part of the source  *)
(* tree; the operations set_brightness, activate_effect and                *)
(* deactivate_effect and the header's macros follow the written            *)
(* specification (sections 4.3 and 4.4).                                   *)
(***************************************************************************)
EXTENDS Integers, Sequences, FiniteSets, TLC

\* ------------------------------------------------------------ bounds ----
\* number of class-device calls (set_brightness, update_status,
\* activate_effect, deactivate_effect) in one behaviour
MaxCalls == 2

\* --------------------------------------------------------- constants ----
COLOR_RED == 0
COLOR_GREEN == 1
COLOR_BLUE == 2
COLOR_WHITE == 3
MAX_COLORS == 4
\* rgbw.h: any value >= MAX_COLORS (pulse_color_update rejects it)
INVALID_COLOR == 5
\* rgbw.h: the tick of the pulse and rainbow timers ("~10 ms")
PULSE_VALUE_PER_NS == 10000000
\* rgbw.h: the tick of the blink timer (only its being fixed matters)
BLINK_STATE_PER_NS == 500000000
\* the two heartbeat intervals
HB_SHORT_NS == 100000000
HB_LONG_NS == 700000000
\* ktime_set(0,1000): the delay with which the update path starts a
\* soft-PWM timer
GPIO_START_NS == 1000
\* the period used when no channel is a hardware PWM
DEFAULT_PERIOD == 7650000
\* half of the width of unsigned int: 32-bit values are handled as two
\* 16-bit limbs
W16 == 65536

Colors == 0 .. (MAX_COLORS - 1)
Effects == {"pulse", "blink", "heartbeat", "rainbow"}

pulse_val_table ==
    << 0, 1, 2, 3, 4, 6, 8, 10, 13, 16, 20,
       24, 28, 34, 39, 45, 52, 60, 68, 77,
       86, 97, 107, 119, 130, 143, 155, 167,
       180, 192, 203, 214, 224, 233, 240, 246,
       251, 254, 254, 254, 251, 246, 240, 233,
       224, 214, 203, 192, 180, 167, 155, 143,
       130, 119, 107, 97, 86, 77, 68, 60, 52,
       45, 39, 34, 28, 24, 20, 16, 13, 10, 8,
       6, 4, 3, 2, 1, 0, 0, 0, 0 >>

\* ARRAY_SIZE(pulse_val_table)
pulse_val_size == Len(pulse_val_table)

Zeros == [c \in Colors |-> 0]

\* ------------------------------------------------------------- state ----
VARIABLES
    \* struct pwm_rgbw_data and the properties fixed by the probe
    period,          \* pb->period
    lth_brightness,  \* pb->lth_brightness
    max_brightness,  \* props[].max_brightness (the same for all colours)
    levels,          \* pb->levels, << >> when NULL
    types,           \* pb->types[]
    notify,          \* pb->notify: "none" when NULL
    \* struct rgbw_properties / rgbw_actions
    brightness,      \* props[].brightness
    cntr,            \* props[].cntr (index into pulse_val_table)
    state,           \* acts.state: the set of effect bits that are set
    bstate,          \* acts.bstate
    pcolor,          \* acts.pcolor
    rgbw_values,     \* acts.rgbw_values[] (the saved colour)
    \* the effect hrtimers
    rgbw_hrtimer,    \* the set of effects whose hrtimer is armed
    interval,        \* the interval each effect timer was last forwarded by
    \* the hardware PWMs
    pwm_duty, pwm_period, pwm_enabled,
    \* the soft PWMs
    value,           \* soft_pwm[].value
    gpio,            \* the level last written to the GPIO
    pwm_timer,       \* soft_pwm[].pwm_timer is armed
    next_tick,       \* the delay the soft-PWM timer was last armed with
    \* history
    calls,           \* class-device calls made so far
    upd,             \* the colours the last step was asked to update
    pre,             \* the brightness the last activation found
    toggle,          \* the last two firings of each soft-PWM timer
    \* the platform device of the RGBW driver
    dt,              \* the device-tree node (or platform data) probed
    lifecycle,       \* "unbound", "bound", "failed", "fault" or "removed"
    ret,             \* the value rgbw_dt_probe returned
    registered,      \* rgbw_device_register succeeded (g_rgbw_dev is set)
    requested,       \* the colours whose GPIO is requested and not freed
    divzero,         \* a division by zero has been evaluated
    stage,           \* the place where rgbw_dt_probe stopped
    \* the HW/ASSY revision driver (hwassyv)
    addr,            \* the levels of the GPIOs addr0 .. addr3
    lookup_table,    \* the "lookup-table" string list
    parsed,          \* which hwassyv_parse_dt has run: "none", "new", "old"
    table_index,     \* pdata->table_index
    revision,        \* pdata->revision
    \* the soft-PWM callbacks in flight
    running,         \* where the callback of each soft-PWM timer is
    hrtimer_next_tick   \* the local hrtimer_next_tick of that callback

cfgvars == << period, lth_brightness, max_brightness, levels, types, notify >>
effvars == << cntr, state, bstate, pcolor, rgbw_values, rgbw_hrtimer, interval >>
hwvars == << pwm_duty, pwm_period, pwm_enabled >>
softvars == << value, gpio, pwm_timer, next_tick >>
histvars == << calls, upd, pre, toggle >>
platvars == << dt, lifecycle, ret, registered, requested, divzero, stage >>
revvars == << addr, lookup_table, parsed, table_index, revision >>
racevars == << running, hrtimer_next_tick >>
devvars == << platvars, revvars, racevars >>
vars == << cfgvars, brightness, effvars, hwvars, softvars, histvars,
           devvars >>

\* ------------------------------------------- unsigned int arithmetic ----
\* (raw * x) modulo 2^32 as the pair << high 16 bits, low 16 bits >>, for
\* 0 <= raw < 2^15 and 0 <= x < 2^31
MulLimbs(raw, x) ==
    LET lo == raw * (x % W16)
        hi == raw * (x \div W16) + (lo \div W16)
    IN  << hi % W16, lo % W16 >>

\* the two's complement of a 32-bit value given as limbs
NegLimbs(l) ==
    IF l[1] = 0 /\ l[2] = 0 THEN l
    ELSE << (W16 - 1 - l[1] + (IF l[2] = 0 THEN 1 ELSE 0)) % W16,
            (W16 - l[2]) % W16 >>

\* int * unsigned int: the int operand is converted to unsigned int and
\* the product is taken modulo 2^32
MulMod32(raw, x) ==
    IF raw >= 0 THEN MulLimbs(raw, x) ELSE NegLimbs(MulLimbs(0 - raw, x))

\* unsigned division of a 32-bit value given as limbs by m > 0
DivLimbs(l, m) ==
    (l[1] \div m) * W16 + (((l[1] % m) * W16 + l[2]) \div m)

\* ---------------------------------------------------- duty-cycle mapper --
\* pb->notify(pb->dev, brightness): NULL, or a sample hook that halves
NotifyOf(b) == IF notify = "none" THEN b ELSE b \div 2

\* (pb->levels) ? pb->levels[brightness] : brightness
Raw(b) == IF levels = << >> THEN b ELSE levels[b + 1]

\* the product duty_cycle * (pb->period - pb->lth_brightness) does not
\* fit 32 bits
Wraps(raw, x) ==
    raw * (x \div W16) + ((raw * (x % W16)) \div W16) >= W16

\* mutant: the division is by max - 1
DutyCycle_short(b, max) ==
    lth_brightness +
        DivLimbs(MulMod32(Raw(b), period - lth_brightness), max - 1)

\* duty_cycle = pb->lth_brightness +
\*              (duty_cycle * (pb->period - pb->lth_brightness) / max)
\* the unsigned sum is stored in the int duty_cycle: a sum of 2^31 or
\* more is a negative duty
DutyCycle(b, max) ==
    LET q == DivLimbs(MulMod32(Raw(b), period - lth_brightness), max)
    IN  IF q > 2147483647 - lth_brightness
        THEN ((q - 2147483647) + lth_brightness - 2147483647) - 2
        ELSE lth_brightness + q

\* the arguments of pwm_config and the enable/disable that follows, for
\* the (notified) brightness b
PwmConfig(b) ==
    IF b = 0 THEN [duty |-> 0, enabled |-> FALSE]
    ELSE [duty |-> DutyCycle(b, max_brightness), enabled |-> TRUE]

\* mutant: the update restarts a timer that is already active
hrtimer_start_always(c) == GPIO_START_NS

\* if (!hrtimer_active(timer)) hrtimer_start(timer, ktime_set(0, 1000)):
\* the expiry of the timer of colour c afterwards
hrtimer_start_idle(c) ==
    IF pwm_timer[c] THEN next_tick[c] ELSE GPIO_START_NS

\* the loop body of the update path run for the colours in S, with br the
\* props[].brightness it reads
UpdatePath(S, br) ==
    /\ pwm_duty' = [c \in Colors |->
            IF c \in S /\ types[c] = "PWM"
            THEN PwmConfig(NotifyOf(br[c])).duty ELSE pwm_duty[c]]
    /\ pwm_period' = [c \in Colors |->
            IF c \in S /\ types[c] = "PWM" THEN period ELSE pwm_period[c]]
    /\ pwm_enabled' = [c \in Colors |->
            IF c \in S /\ types[c] = "PWM"
            THEN PwmConfig(NotifyOf(br[c])).enabled ELSE pwm_enabled[c]]
    /\ pwm_timer' = [c \in Colors |->
            IF c \in S /\ types[c] = "GPIO" THEN TRUE ELSE pwm_timer[c]]
    /\ next_tick' = [c \in Colors |->
            IF c \in S /\ types[c] = "GPIO"
            THEN hrtimer_start_idle(c) ELSE next_tick[c]]
    /\ UNCHANGED << value, gpio >>

\* a step that does not enter the update path
NoUpdate == UNCHANGED << hwvars, softvars >> /\ upd' = {}

\* mutant: the loop of the full update stops one colour short of the
\* hardware PWMs
UpdatedColors_short == Colors \ {COLOR_BLUE}

\* the colours the full update walks: cntr = COLOR_RED .. MAX_COLORS - 1
UpdatedColors == Colors

\* mutant: the update reads the brightness from before the tick
rgbw_color_update_stale(br) ==
    UpdatePath(UpdatedColors, brightness) /\ upd' = Colors

\* the full update; upd records that it ran for the four slots
rgbw_color_update(br) == UpdatePath(UpdatedColors, br) /\ upd' = Colors

\* mutant: the single-channel update walks all four slots
pulse_color_update_all(br, pc) == UpdatePath(Colors, br) /\ upd' = Colors

\* the single-channel update, for the colour pc
pulse_color_update(br, pc) ==
    IF pc >= MAX_COLORS
    THEN NoUpdate
    ELSE UpdatePath({pc}, br) /\ upd' = {pc}

\* --------------------------------------------------------- history ------
\* one firing of a soft-PWM timer: the brightness it read, the level it
\* drove and the delay it computed (0: not restarted)
Firing(b, v, ns) == [b |-> b, value |-> v, ns |-> ns]

NoFiring == Firing(0 - 1, 0, 0)

\* the firings that are remembered once the brightness is nb: those of a
\* colour whose brightness changes are forgotten
ToggleAfter(nb) ==
    [c \in Colors |->
        IF nb[c] = brightness[c] THEN toggle[c] ELSE << NoFiring, NoFiring >>]

\* ------------------------------------------------- effect callbacks -----
\* mutant: the callback does not test its bit
BitSet_untested(e) == TRUE

\* bstate & RGBW_xx_ON, with bstate = g_rgbw_dev->acts.state
BitSet(e) == e \in state

\* mutant: the else branch returns HRTIMER_RESTART
EffectStop_restart(e) ==
    /\ UNCHANGED rgbw_hrtimer
    /\ interval' = [interval EXCEPT ![e] = PULSE_VALUE_PER_NS]
    /\ NoUpdate
    /\ UNCHANGED << cfgvars, devvars, brightness, cntr, state, bstate, pcolor,
                    rgbw_values, calls, pre, toggle >>

\* HRTIMER_NORESTART: the timer of effect e is left stopped and nothing
\* else is touched
EffectStop(e) ==
    /\ rgbw_hrtimer' = rgbw_hrtimer \ {e}
    /\ interval' = [interval EXCEPT ![e] = 0]
    /\ NoUpdate
    /\ UNCHANGED << cfgvars, devvars, brightness, cntr, state, bstate, pcolor,
                    rgbw_values, calls, pre, toggle >>

\* hrtimer_forward(timer, ktime_get(), ns_to_ktime(ns)); HRTIMER_RESTART
EffectForward(e, ns) ==
    /\ interval' = [interval EXCEPT ![e] = ns]
    /\ UNCHANGED rgbw_hrtimer

\* the brightness a rainbow tick leaves, for the step bs
RainbowBrightness(bs) ==
    CASE bs = 0 -> [brightness EXCEPT ![COLOR_GREEN] = @ + 1]
      [] bs = 1 -> [brightness EXCEPT ![COLOR_RED] = @ - 1]
      [] bs = 2 -> [brightness EXCEPT ![COLOR_BLUE] = @ + 1]
      [] bs = 3 -> [brightness EXCEPT ![COLOR_GREEN] = @ - 1]
      [] bs = 4 -> [brightness EXCEPT ![COLOR_RED] = @ + 1]
      [] bs = 5 -> [brightness EXCEPT ![COLOR_BLUE] = @ - 1]
      [] OTHER  -> [c \in Colors |->
                        IF c = COLOR_RED THEN max_brightness ELSE 0]

\* mutant: step 0 is left one tick early
RainbowStep_early(bs, nb) ==
    CASE bs = 0 -> IF nb[COLOR_GREEN] > max_brightness - 2 THEN 1 ELSE bs
      [] bs = 1 -> IF nb[COLOR_RED] < 1 THEN 2 ELSE bs
      [] bs = 2 -> IF nb[COLOR_BLUE] > max_brightness - 1 THEN 3 ELSE bs
      [] bs = 3 -> IF nb[COLOR_GREEN] < 1 THEN 4 ELSE bs
      [] bs = 4 -> IF nb[COLOR_RED] > max_brightness - 1 THEN 5 ELSE bs
      [] bs = 5 -> IF nb[COLOR_BLUE] < 1 THEN 0 ELSE bs
      [] OTHER  -> 0

\* the step a rainbow tick leaves, for the step bs and the brightness nb
\* it has just written
RainbowStep(bs, nb) ==
    CASE bs = 0 -> IF nb[COLOR_GREEN] > max_brightness - 1 THEN 1 ELSE bs
      [] bs = 1 -> IF nb[COLOR_RED] < 1 THEN 2 ELSE bs
      [] bs = 2 -> IF nb[COLOR_BLUE] > max_brightness - 1 THEN 3 ELSE bs
      [] bs = 3 -> IF nb[COLOR_GREEN] < 1 THEN 4 ELSE bs
      [] bs = 4 -> IF nb[COLOR_RED] > max_brightness - 1 THEN 5 ELSE bs
      [] bs = 5 -> IF nb[COLOR_BLUE] < 1 THEN 0 ELSE bs
      [] OTHER  -> 0

rgbw_rb_hrtimer_callback ==
    /\ "rainbow" \in rgbw_hrtimer
    /\ IF BitSet("rainbow")
       THEN LET nb == RainbowBrightness(bstate) IN
            /\ brightness' = nb
            /\ bstate' = RainbowStep(bstate, nb)
            /\ rgbw_color_update(nb)
            /\ EffectForward("rainbow", PULSE_VALUE_PER_NS)
            /\ UNCHANGED << cfgvars, devvars, cntr, state, pcolor, rgbw_values >>
            /\ toggle' = ToggleAfter(nb)
            /\ UNCHANGED << calls, pre >>
       ELSE EffectStop("rainbow")

\* mutant: the even steps are the dark ones
HeartbeatBrightness_swapped(bs) ==
    [c \in Colors |-> IF bs % 2 = 0 THEN 0 ELSE rgbw_values[c]]

\* (bstate % 2) ? 0 : rgbw_values[cntr]
HeartbeatBrightness(bs) ==
    [c \in Colors |-> IF bs % 2 # 0 THEN 0 ELSE rgbw_values[c]]

\* mutant: the step wraps at 3 only
HeartbeatStep_at3(bs) == IF bs = 3 THEN 0 ELSE bs + 1

\* (bstate < 3) ? bstate + 1 : 0
HeartbeatStep(bs) == IF bs < 3 THEN bs + 1 ELSE 0

\* mutant: every step is forwarded by the short interval
HeartbeatInterval_short(bs) == HB_SHORT_NS

\* the interval the heartbeat timer is forwarded by
HeartbeatInterval(bs) == IF bs < 3 THEN HB_SHORT_NS ELSE HB_LONG_NS

rgbw_hb_hrtimer_callback ==
    /\ "heartbeat" \in rgbw_hrtimer
    /\ IF BitSet("heartbeat")
       THEN LET nb == HeartbeatBrightness(bstate) IN
            /\ brightness' = nb
            /\ bstate' = HeartbeatStep(bstate)
            /\ rgbw_color_update(nb)
            /\ EffectForward("heartbeat", HeartbeatInterval(bstate))
            /\ UNCHANGED << cfgvars, devvars, cntr, state, pcolor, rgbw_values >>
            /\ toggle' = ToggleAfter(nb)
            /\ UNCHANGED << calls, pre >>
       ELSE EffectStop("heartbeat")

\* (!bstate) ? 0 : rgbw_values[cntr]
BlinkBrightness(bs) ==
    [c \in Colors |-> IF bs = 0 THEN 0 ELSE rgbw_values[c]]

\* mutant: the step is not toggled
BlinkStep_stuck(bs) == 0

\* (!bstate) ? 1 : 0
BlinkStep(bs) == IF bs = 0 THEN 1 ELSE 0

rgbw_blink_hrtimer_callback ==
    /\ "blink" \in rgbw_hrtimer
    /\ IF BitSet("blink")
       THEN LET nb == BlinkBrightness(bstate) IN
            /\ brightness' = nb
            /\ bstate' = BlinkStep(bstate)
            /\ rgbw_color_update(nb)
            /\ EffectForward("blink", BLINK_STATE_PER_NS)
            /\ UNCHANGED << cfgvars, devvars, cntr, state, pcolor, rgbw_values >>
            /\ toggle' = ToggleAfter(nb)
            /\ UNCHANGED << calls, pre >>
       ELSE EffectStop("blink")

\* mutant: the index wraps one entry late
PulseIndex_past(n) == IF n > pulse_val_size THEN 0 ELSE n

\* mutant: the index wraps one entry early
PulseIndex_early(n) == IF n >= pulse_val_size - 1 THEN 0 ELSE n

\* if (cntr >= pulse_val_size) cntr = 0: the table index a tick reads
PulseIndex(n) == IF n >= pulse_val_size THEN 0 ELSE n

\* the pulse timer only runs with a target colour inside props[] here:
\* activate_effect sets acts.pcolor before it arms the timer
rgbw_pulse_hrtimer_callback ==
    /\ "pulse" \in rgbw_hrtimer
    /\ IF BitSet("pulse")
       THEN LET i == PulseIndex(cntr[pcolor])
                nb == [brightness EXCEPT ![pcolor] = pulse_val_table[i + 1]]
            IN
            /\ pcolor \in Colors
            /\ brightness' = nb
            /\ cntr' = [cntr EXCEPT ![pcolor] = i + 1]
            /\ pulse_color_update(nb, pcolor)
            /\ EffectForward("pulse", PULSE_VALUE_PER_NS)
            /\ UNCHANGED << cfgvars, devvars, state, bstate, pcolor, rgbw_values >>
            /\ toggle' = ToggleAfter(nb)
            /\ UNCHANGED << calls, pre >>
       ELSE EffectStop("pulse")

\* ------------------------------------------------ soft-PWM callback -----
\* mutant: the pulse width is not scaled by lth_brightness
PulseWidth_raw(c) == brightness[c]

\* brightness * pb->lth_brightness (unsigned int; the products of the
\* configurations used here stay below 2^31)
PulseWidth(c) == DivLimbs(MulMod32(brightness[c], lth_brightness), 1)

\* soft_pwm[c].value after a firing
GpioValue(c) ==
    IF brightness[c] >= max_brightness THEN 1
    ELSE IF brightness[c] = 0 THEN 0
    ELSE 1 - value[c]

\* mutant: the two steady cases compute a delay as well
GpioNextTick_rearm(c) ==
    IF GpioValue(c) = 1 THEN PulseWidth(c) ELSE period - PulseWidth(c)

\* hrtimer_next_tick after a firing: 0 in the two steady cases, else the
\* pulse width when the output is now high and the rest of the period
\* when it is now low
GpioNextTick(c) ==
    IF brightness[c] >= max_brightness \/ brightness[c] = 0 THEN 0
    ELSE IF GpioValue(c) = 1 THEN PulseWidth(c)
    ELSE period - PulseWidth(c)

\* the colour the loop stops at: the first GPIO colour whose timer is
\* running its callback; t is the timer that fired
GpioRunning(t) ==
    CHOOSE c \in Colors :
        /\ types[c] = "GPIO" /\ c = t
        /\ \A d \in Colors : (types[d] = "GPIO" /\ d = t) => c <= d

rgbw_gpio_hrtimer_callback(t) ==
    /\ lifecycle = "bound"
    /\ types[t] = "GPIO"
    /\ pwm_timer[t]
    /\ LET c == GpioRunning(t) IN
       /\ value' = [value EXCEPT ![c] = GpioValue(c)]
       /\ gpio' = [gpio EXCEPT ![c] = GpioValue(c)]
       /\ IF GpioNextTick(c) > 0
          THEN /\ next_tick' = [next_tick EXCEPT ![t] = GpioNextTick(c)]
               /\ UNCHANGED pwm_timer
          ELSE /\ pwm_timer' = [pwm_timer EXCEPT ![t] = FALSE]
               /\ next_tick' = [next_tick EXCEPT ![t] = 0]
       /\ toggle' = [toggle EXCEPT ![c] =
              << @[2], Firing(brightness[c], GpioValue(c), GpioNextTick(c)) >>]
    /\ upd' = {}
    /\ UNCHANGED << cfgvars, devvars, brightness, effvars, hwvars, calls, pre >>

\* The same callback in three steps, for timers whose callbacks can run at
\* the same time on different CPUs: the timer expires and the callback is
\* entered (the timer stays active while its callback runs) ...
gpio_callback_enter(t) ==
    /\ lifecycle = "bound"
    /\ types[t] = "GPIO"
    /\ pwm_timer[t]
    /\ running[t] = "idle"
    /\ running' = [running EXCEPT ![t] = "entered"]
    /\ hrtimer_next_tick' = [hrtimer_next_tick EXCEPT ![t] = 0]
    /\ upd' = {}
    /\ UNCHANGED << cfgvars, platvars, revvars, brightness, effvars, hwvars,
                    softvars, calls, pre, toggle >>

\* ... the loop of lines 373-396 runs: it stops at the first GPIO colour
\* whose hrtimer_callback_running is true, whichever timer t fired ...
gpio_callback_loop(t) ==
    /\ running[t] = "entered"
    /\ LET c == CHOOSE c \in Colors :
                    /\ types[c] = "GPIO" /\ running[c] # "idle"
                    /\ \A d \in Colors :
                          (types[d] = "GPIO" /\ running[d] # "idle") => c <= d
       IN
       /\ value' = [value EXCEPT ![c] = GpioValue(c)]
       /\ gpio' = [gpio EXCEPT ![c] = GpioValue(c)]
       /\ hrtimer_next_tick' =
              [hrtimer_next_tick EXCEPT ![t] = GpioNextTick(c)]
       /\ toggle' = [toggle EXCEPT ![c] =
              << @[2], Firing(brightness[c], GpioValue(c), GpioNextTick(c)) >>]
    /\ running' = [running EXCEPT ![t] = "decided"]
    /\ upd' = {}
    /\ UNCHANGED << cfgvars, platvars, revvars, brightness, effvars, hwvars,
                    pwm_timer, next_tick, calls, pre >>

\* ... and lines 399-408: the timer that fired is forwarded and restarts,
\* or is left stopped
gpio_callback_return(t) ==
    /\ running[t] = "decided"
    /\ IF hrtimer_next_tick[t] > 0
       THEN /\ next_tick' = [next_tick EXCEPT ![t] = hrtimer_next_tick[t]]
            /\ UNCHANGED pwm_timer
       ELSE /\ pwm_timer' = [pwm_timer EXCEPT ![t] = FALSE]
            /\ next_tick' = [next_tick EXCEPT ![t] = 0]
    /\ running' = [running EXCEPT ![t] = "idle"]
    /\ upd' = {}
    /\ UNCHANGED << cfgvars, platvars, revvars, brightness, effvars, hwvars,
                    value, gpio, hrtimer_next_tick, calls, pre, toggle >>

\* ------------------------------------------- class-device operations ----
\* set_brightness(channel, value): a value above max_brightness is
\* rejected; the value is stored and the single-channel update path run
set_brightness(c, v) ==
    /\ v <= max_brightness
    /\ brightness' = [brightness EXCEPT ![c] = v]
    /\ pulse_color_update(brightness', c)
    /\ pre' = [pre EXCEPT !.valid = FALSE]
    /\ toggle' = ToggleAfter(brightness')
    /\ UNCHANGED << cfgvars, devvars, effvars >>

\* update_status(): the full refresh, ops->update_status
update_status ==
    /\ rgbw_color_update(brightness)
    /\ UNCHANGED << cfgvars, devvars, brightness, effvars, pre, toggle >>

\* the brightness activate_effect snapshots: an effect that is still
\* active is deactivated first, which restores its saved colour
Snapshot == IF state = {} THEN brightness ELSE rgbw_values

\* mutant: the bit is set without clearing the others
ActiveAfter_or(k) == state \cup {k}

\* the bits left in acts.state once effect k has been activated
ActiveAfter(k) == {k}

\* activate_effect(kind, params): deactivate the active effect if any,
\* snapshot the brightness, set the bit, arm the timer of the effect;
\* params is the target colour of Pulse
activate_effect(k, pc) ==
    /\ k \notin state
    /\ IF k = "pulse" THEN pc \in Colors ELSE pc = pcolor
    /\ brightness' = Snapshot
    /\ rgbw_values' = Snapshot
    /\ IF state = {} THEN NoUpdate ELSE rgbw_color_update(Snapshot)
    /\ state' = ActiveAfter(k)
    /\ pcolor' = pc
    /\ rgbw_hrtimer' = rgbw_hrtimer \cup {k}
    /\ interval' = [interval EXCEPT ![k] = 0]
    /\ pre' = [valid |-> TRUE, color |-> Snapshot]
    /\ toggle' = ToggleAfter(Snapshot)
    /\ UNCHANGED << cfgvars, devvars, cntr, bstate >>

\* the brightness deactivate_effect stores
Restored == rgbw_values

\* deactivate_effect(kind): clear the bit, restore the saved colour, call
\* update_status()
deactivate_effect(k) ==
    /\ k \in state
    /\ state' = state \ {k}
    /\ brightness' = Restored
    /\ rgbw_color_update(Restored)
    /\ toggle' = ToggleAfter(Restored)
    /\ UNCHANGED << cfgvars, devvars, cntr, bstate, pcolor, rgbw_values,
                    rgbw_hrtimer, interval, pre >>

\* ------------------------------------------------------- the probe ------
\* max in rgbw_dt_probe: the last entry of the levels table, or
\* max_brightness without a table
ProbeMax(lv, mb) == IF lv = << >> THEN mb ELSE lv[mb + 1]

\* mutant: the loop does not break at the first hardware PWM
ProbePeriod_last(ty, pp) ==
    IF \E c \in Colors : ty[c] = "PWM"
    THEN pp[CHOOSE c \in Colors :
                /\ ty[c] = "PWM"
                /\ \A d \in Colors : (ty[d] = "PWM") => d <= c]
    ELSE DEFAULT_PERIOD

\* pb->period after the loop of lines 728-747: pwm_get_period of the first
\* colour that is a hardware PWM, 7650000 without one; pp[c] is the period
\* of the PWM device of colour c
ProbePeriod(ty, pp) ==
    IF \E c \in Colors : ty[c] = "PWM"
    THEN pp[CHOOSE c \in Colors :
                /\ ty[c] = "PWM"
                /\ \A d \in Colors : (ty[d] = "PWM") => c <= d]
    ELSE DEFAULT_PERIOD

\* no soft-PWM callback is executing
NoCallback ==
    /\ running = [c \in Colors |-> "idle"]
    /\ hrtimer_next_tick = Zeros

\* the hwassyv platform device has not been probed
NoRevision ==
    /\ addr = [b \in 0 .. 3 |-> 0]
    /\ lookup_table = << >>
    /\ parsed = "none"
    /\ table_index = 0
    /\ revision = ""

\* a device-tree / platform-data configuration
Config(pwmperiod, mb, lv, ty, nf) ==
    [period |-> pwmperiod, max_brightness |-> mb, levels |-> lv,
     types |-> ty, notify |-> nf]

Color(r, g, b, w) ==
    [c \in Colors |-> CASE c = COLOR_RED -> r [] c = COLOR_GREEN -> g
                        [] c = COLOR_BLUE -> b [] OTHER -> w]

\* red, green and blue on hardware PWMs, white on a GPIO
RgbPwmWhiteGpio == Color("PWM", "PWM", "PWM", "GPIO")

\* four hardware PWMs
RgbwPwm == Color("PWM", "PWM", "PWM", "PWM")

\* the state rgbw_dt_probe leaves for the configuration cfg, once the
\* colour col has been stored through set_brightness and before any
\* timer has fired, when the header defines INVALID_COLOR as inv
ProbeAs(cfg, col, inv) ==
    /\ period = ProbePeriod(cfg.types, [c \in Colors |-> cfg.period])
    /\ lth_brightness = period \div ProbeMax(cfg.levels, cfg.max_brightness)
    /\ max_brightness = cfg.max_brightness
    /\ levels = cfg.levels
    /\ types = cfg.types
    /\ notify = cfg.notify
    /\ brightness = col
    /\ cntr = Zeros
    /\ rgbw_values = Zeros
    /\ state = {}
    /\ bstate = inv
    /\ pcolor = inv
    /\ rgbw_hrtimer = {}
    /\ interval = [e \in Effects |-> 0]
    /\ pwm_duty = [c \in Colors |->
            IF types[c] = "PWM" THEN PwmConfig(NotifyOf(col[c])).duty ELSE 0]
    /\ pwm_period = [c \in Colors |-> IF types[c] = "PWM" THEN period ELSE 0]
    /\ pwm_enabled = [c \in Colors |->
            types[c] = "PWM" /\ PwmConfig(NotifyOf(col[c])).enabled]
    /\ value = Zeros
    /\ gpio = Zeros
    \* rgbw_update_status(rgbw_dev) at the end of the probe starts the
    \* soft-PWM timers
    /\ pwm_timer = [c \in Colors |-> types[c] = "GPIO"]
    /\ next_tick = [c \in Colors |-> IF types[c] = "GPIO" THEN GPIO_START_NS ELSE 0]
    /\ calls = 0
    /\ upd = {}
    /\ pre = [valid |-> FALSE, color |-> Zeros]
    /\ toggle = [c \in Colors |-> << NoFiring, NoFiring >>]
    /\ dt = cfg
    /\ lifecycle = "bound"
    /\ ret = 0
    /\ registered = TRUE
    /\ requested = {c \in Colors : types[c] = "GPIO"}
    /\ divzero = FALSE
    /\ stage = "done"
    /\ NoRevision
    /\ NoCallback

\* the same with the value this model takes for INVALID_COLOR
Probe(cfg, col) == ProbeAs(cfg, col, INVALID_COLOR)

\* ------------------------------------------------------- the remove -----
\* rgbw_color_remove: the effect timers are cancelled, the class device
\* is unregistered, every hardware PWM is configured with 0 and disabled,
\* every GPIO is driven low and freed. The soft-PWM timers are not
\* touched.
rgbw_color_remove ==
    /\ lifecycle = "bound"
    /\ pcolor' = INVALID_COLOR
    /\ bstate' = INVALID_COLOR
    /\ rgbw_hrtimer' = {}
    /\ interval' = [e \in Effects |-> 0]
    /\ registered' = FALSE
    /\ pwm_duty' = [c \in Colors |->
            IF types[c] = "PWM" THEN 0 ELSE pwm_duty[c]]
    /\ pwm_period' = [c \in Colors |->
            IF types[c] = "PWM" THEN period ELSE pwm_period[c]]
    /\ pwm_enabled' = [c \in Colors |->
            IF types[c] = "PWM" THEN FALSE ELSE pwm_enabled[c]]
    /\ gpio' = [c \in Colors |-> IF types[c] = "GPIO" THEN 0 ELSE gpio[c]]
    /\ requested' = {c \in requested : types[c] # "GPIO"}
    /\ lifecycle' = "removed"
    /\ upd' = {}
    /\ UNCHANGED << cfgvars, brightness, cntr, state, rgbw_values, value,
                    pwm_timer, next_tick, calls, pre, toggle, dt, ret,
                    divzero, stage, revvars, racevars >>

\* a soft-PWM timer that is still armed fires after the remove: the
\* callback reads driver data that has been released, so the level it
\* writes to the freed GPIO and whether it restarts are not determined
rgbw_gpio_hrtimer_callback_removed(t) ==
    /\ lifecycle = "removed"
    /\ types[t] = "GPIO"
    /\ pwm_timer[t]
    /\ \E v \in {0, 1}, again \in BOOLEAN :
          /\ gpio' = [gpio EXCEPT ![t] = v]
          /\ value' = [value EXCEPT ![t] = v]
          /\ pwm_timer' = [pwm_timer EXCEPT ![t] = again]
    /\ upd' = {}
    /\ UNCHANGED << cfgvars, devvars, brightness, effvars, hwvars,
                    next_tick, calls, pre, toggle >>

\* ------------------------------------------ the probe, step by step ----
\* the error numbers the probe returns
ENOMEM == 12
EBUSY == 16
ENODEV == 19
EINVAL == 22
ENODATA == 61

color_names == << "red", "green", "blue", "white" >>

\* of_property_match_string: the index of the string s in the string
\* list names, -ENODATA when it is not there
of_property_match_string(names, s) ==
    IF \E i \in 1 .. Len(names) : names[i] = s
    THEN (CHOOSE i \in 1 .. Len(names) :
              names[i] = s /\ \A j \in 1 .. (i - 1) : names[j] # s) - 1
    ELSE -ENODATA

\* a device-tree node: whether "brightness-levels" is there and its
\* cells, what of_count_phandle_with_args returns for "pwms" and "gpios",
\* the string lists "pwm-names" and "gpio-names", and for each colour the
\* period of the PWM device that pwm_get returns for it
Node(has, lv, np, ng, pn, gn) ==
    [of_node |-> TRUE, has_levels |-> has, levels |-> lv, pwms |-> np,
     gpios |-> ng, pwm_names |-> pn, gpio_names |-> gn,
     period |-> [c \in 0 .. 3 |-> 12 + 4 * c]]

\* a call of the probe that the environment makes fail: at is the call,
\* color the colour it is made for
Fault(at, c) == [at |-> at, color |-> c]

NoFault == Fault("none", 0)

\* rgbw_parse_dt: the platform data read from the node; levels is << >>
\* when data->levels stays NULL
rgbw_parse_dt(node, fail) ==
    IF ~node.of_node
    THEN [ret |-> -ENODEV, max_brightness |-> 0, levels |-> << >>]
    ELSE IF ~node.has_levels
    THEN [ret |-> -EINVAL, max_brightness |-> 0, levels |-> << >>]
    ELSE IF Len(node.levels) > 0
    THEN IF fail = Fault("levels", 0)
         THEN [ret |-> -ENOMEM, max_brightness |-> Len(node.levels),
               levels |-> << >>]
         ELSE [ret |-> 0, max_brightness |-> Len(node.levels) - 1,
               levels |-> node.levels]
    ELSE [ret |-> 0, max_brightness |-> 0, levels |-> << >>]

\* "if (cntr > 0) num += cntr"
Counted(n) == IF n > 0 THEN n ELSE 0

\* the check of the number of colours in rgbw_dt_validation
ColorCountError_two(num) ==
    IF num < 2 THEN -ENODATA ELSE IF num > 4 THEN -EINVAL ELSE 0

ColorCountError(num) ==
    IF num < 3 THEN -ENODATA ELSE IF num > 4 THEN -EINVAL ELSE 0

\* rgbw_dt_validation: negative on an error, the number of colours when
\* names are defined, 0 when no names are defined. In the loop over the
\* names (lines 470-480) "if (ret >= 0);" is an empty statement and the
\* "continue" after it is taken in every round, whatever
\* of_property_match_string returned: the loop returns no error.
rgbw_dt_validation(node) ==
    LET num_def_colors == Counted(node.pwms) + Counted(node.gpios)
        num_def_names ==
            Counted(Len(node.pwm_names)) + Counted(Len(node.gpio_names))
    IN  IF ColorCountError(num_def_colors) < 0
        THEN ColorCountError(num_def_colors)
        ELSE IF num_def_names > 0
        THEN IF num_def_names # num_def_colors THEN -ENODATA
             ELSE num_def_colors
        ELSE 0

\* devm_of_pwm_get and, when it fails, devm_pwm_get for colour c: a
\* failure jumps to err_alloc and leaves ret as it is
pwm_acquire(fail, c, a) ==
    IF fail = Fault("pwm_get", c)
    THEN [a EXCEPT !.stage = "pwm_get"]
    ELSE [a EXCEPT !.types[c] = "PWM"]

\* gpio_request and gpio_direction_output for colour c: a GPIO whose
\* direction cannot be set is freed again
gpio_acquire(fail, c, a) ==
    IF fail = Fault("gpio_request", c)
    THEN [a EXCEPT !.ret = -EBUSY, !.stage = "gpio_request"]
    ELSE IF fail = Fault("gpio_direction_output", c)
    THEN [a EXCEPT !.ret = -EINVAL, !.stage = "gpio_direction_output"]
    ELSE [a EXCEPT !.ret = 0, !.requested = @ \cup {c},
                   !.types[c] = "GPIO"]

\* the loop over the named colours (lines 624-666)
RECURSIVE NamedLoop(_, _, _, _)
NamedLoop(node, fail, n, a) ==
    IF a.cntr >= n \/ a.stage # "run" THEN a
    ELSE LET c == a.cntr
             inv == [a EXCEPT !.types[c] = "INVALID", !.cntr = c + 1]
         IN  IF of_property_match_string(node.pwm_names,
                                         color_names[c + 1]) >= 0
             THEN NamedLoop(node, fail, n, pwm_acquire(fail, c, inv))
             ELSE IF of_property_match_string(node.gpio_names,
                                              color_names[c + 1]) >= 0
             THEN NamedLoop(node, fail, n, gpio_acquire(fail, c, inv))
             ELSE NamedLoop(node, fail, n, inv)

\* the loop over the hardware PWMs without names (lines 681-696)
RECURSIVE HardLoop(_, _, _)
HardLoop(fail, n, a) ==
    IF a.cntr >= n \/ a.stage # "run" THEN a
    ELSE HardLoop(fail, n,
             pwm_acquire(fail, a.cntr,
                 [a EXCEPT !.types[a.cntr] = "INVALID", !.cntr = @ + 1]))

\* the loop over the GPIOs without names (lines 700-718)
RECURSIVE SoftLoop(_, _, _)
SoftLoop(fail, n, a) ==
    IF a.cntr >= n \/ a.stage # "run" THEN a
    ELSE SoftLoop(fail, n,
             gpio_acquire(fail, a.cntr,
                 [a EXCEPT !.types[a.cntr] = "INVALID", !.cntr = @ + 1]))

\* the colours added in R-G-B-W order, PWMs first (lines 675-725)
UnnamedColors(node, fail, a) ==
    LET num_hpwms == node.pwms
        num_spwms == node.gpios
        total_pwms == num_hpwms + num_spwms
        h == IF num_hpwms > 0 THEN HardLoop(fail, num_hpwms, a) ELSE a
        s == IF num_spwms > 0 THEN SoftLoop(fail, total_pwms, h) ELSE h
    IN  IF s.stage = "run" /\ s.cntr # total_pwms
        THEN [s EXCEPT !.stage = "count"]
        ELSE s

\* the channels of the probe (lines 595-726): num_named_colors is what
\* the validation returned, ret starts as that value
Channels(node, fail, num_named_colors) ==
    LET a == [types |-> [c \in Colors |-> "NONE"], requested |-> {},
              ret |-> num_named_colors, stage |-> "run", cntr |-> COLOR_RED]
    IN  IF fail = Fault("kzalloc", 0)
        THEN [a EXCEPT !.ret = -ENOMEM, !.stage = "kzalloc"]
        ELSE IF num_named_colors > 0
        THEN NamedLoop(node, fail, num_named_colors, a)
        ELSE UnnamedColors(node, fail, a)

\* a return before anything is allocated
ProbeReturns(r, st) ==
    /\ ret' = r
    /\ lifecycle' = "failed"
    /\ stage' = st
    /\ UNCHANGED << cfgvars, brightness, effvars, hwvars, softvars,
                    histvars, dt, registered, requested, divzero, revvars,
                    racevars >>

\* err_alloc: data->exit is called when it is set and ret is returned;
\* nothing that was acquired is given back here
err_alloc(a, dz) ==
    /\ ret' = a.ret
    /\ lifecycle' = "failed"
    /\ stage' = a.stage
    /\ requested' = a.requested
    /\ divzero' = dz
    /\ UNCHANGED << cfgvars, brightness, effvars, hwvars, softvars,
                    histvars, dt, registered, revvars, racevars >>

\* the division at line 749 traps: the probe never returns
ProbeTraps(a) ==
    /\ lifecycle' = "fault"
    /\ stage' = "division"
    /\ requested' = a.requested
    /\ divzero' = TRUE
    /\ UNCHANGED << cfgvars, brightness, effvars, hwvars, softvars,
                    histvars, dt, ret, registered, revvars, racevars >>

\* lines 749-790: the device is registered and refreshed, with lth the
\* result of period / max
ProbeCompletes(a, data, lth, dz) ==
    /\ period' = ProbePeriod(a.types, dt.period)
    /\ lth_brightness' = lth
    /\ max_brightness' = data.max_brightness
    /\ levels' = data.levels
    /\ types' = a.types
    /\ notify' = "none"
    /\ brightness' = Zeros
    /\ cntr' = Zeros
    /\ rgbw_values' = Zeros
    /\ state' = {}
    /\ bstate' = INVALID_COLOR
    /\ pcolor' = INVALID_COLOR
    /\ rgbw_hrtimer' = {}
    /\ interval' = [e \in Effects |-> 0]
    /\ pwm_duty' = Zeros
    /\ pwm_period' = [c \in Colors |->
            IF a.types[c] = "PWM" THEN period' ELSE 0]
    /\ pwm_enabled' = [c \in Colors |-> FALSE]
    /\ value' = Zeros
    /\ gpio' = Zeros
    /\ pwm_timer' = [c \in Colors |-> a.types[c] = "GPIO"]
    /\ next_tick' = [c \in Colors |->
            IF a.types[c] = "GPIO" THEN GPIO_START_NS ELSE 0]
    /\ calls' = 0
    /\ upd' = {}
    /\ pre' = [valid |-> FALSE, color |-> Zeros]
    /\ toggle' = [c \in Colors |-> << NoFiring, NoFiring >>]
    /\ lifecycle' = "bound"
    /\ ret' = 0
    /\ registered' = TRUE
    /\ requested' = a.requested
    /\ divzero' = dz
    /\ stage' = "done"
    /\ UNCHANGED << dt, revvars, racevars >>

\* lines 749-790 with the outcome of the registration
Register(fail, a, data, lth, dz) ==
    IF fail = Fault("register", 0)
    THEN err_alloc([a EXCEPT !.ret = -ENOMEM, !.stage = "register"], dz)
    ELSE ProbeCompletes(a, data, lth, dz)

\* rgbw_dt_probe of a device without platform data. A division by zero
\* at line 749 either traps or yields 0 and the probe goes on.
rgbw_dt_probe(fail) ==
    /\ lifecycle = "unbound"
    /\ LET data == rgbw_parse_dt(dt, fail)
           v == rgbw_dt_validation(dt)
           a == Channels(dt, fail, v)
           max == ProbeMax(data.levels, data.max_brightness)
       IN  IF data.ret < 0 THEN ProbeReturns(data.ret, "rgbw_parse_dt")
           ELSE IF v < 0 THEN ProbeReturns(v, "rgbw_dt_validation")
           ELSE IF a.stage # "run" THEN err_alloc(a, FALSE)
           ELSE IF max = 0
           THEN \/ ProbeTraps(a)
                \/ Register(fail, a, data, 0, TRUE)
           ELSE Register(fail, a, data,
                         ProbePeriod(a.types, dt.period) \div max, FALSE)

\* ------------------------------------- the HW/ASSY revision driver ----
BIT0 == 0
BIT3 == 3
MAX_BITS == 4

\* "x |= v" for a level v that is 0 or 1
OrBit(x, v) == IF x % 2 = 1 THEN x ELSE x + v

\* "(cntr != BIT0) ? table_index << 1 : table_index"
ShiftUnless_always(c, x) == x * 2

ShiftUnless(c, x) == IF c # BIT0 THEN x * 2 ELSE x

\* the do-while loop of hwassyv_parse_dt (src/unnamed/part_000), from
\* cntr = c down to BIT0, entered with table_index = x
RECURSIVE TableIndex(_, _)
TableIndex(c, x) ==
    LET y == ShiftUnless(c, IF addr[c] # 0 THEN OrBit(x, 1) ELSE x)
    IN  IF c > BIT0 THEN TableIndex(c - 1, y) ELSE y

\* the for loop of hwassyv_parse_dt (src/hwassyv.c), from cntr = c up to
\* MAX_BITS - 1, entered with table_index = x
RECURSIVE TableIndexLoop(_, _)
TableIndexLoop(c, x) ==
    IF c < MAX_BITS THEN TableIndexLoop(c + 1, OrBit(x, addr[c]) * 2) ELSE x

\* of_property_read_string_index on "lookup-table", with the string to
\* report when it fails
ReadRevision(i, missing) ==
    IF i < Len(lookup_table) THEN lookup_table[i + 1] ELSE missing

\* what is left of a parse: the index, the revision and the outcome
Parsed(as, i, rev) ==
    /\ parsed' = as
    /\ table_index' = i
    /\ revision' = rev
    /\ UNCHANGED << cfgvars, brightness, effvars, hwvars, softvars,
                    histvars, platvars, racevars, addr, lookup_table >>

\* hwassyv_parse_dt of src/unnamed/part_000, for a node with four
\* ref-bits and four gpios that can all be requested
hwassyv_parse_dt ==
    /\ parsed = "none"
    /\ IF Len(lookup_table) < 1 THEN Parsed("failed", 0, "")
       ELSE LET i == TableIndex(BIT3, 0)
            IN  IF i > 15 THEN Parsed("failed", i, "")
                ELSE Parsed("new", i,
                         ReadRevision(i, "INVALID HW / ASSY REVISION VALUE"))

\* hwassyv_parse_dt of src/hwassyv.c, for the same node
hwassyv_c_parse_dt ==
    /\ parsed = "none"
    /\ IF Len(lookup_table) < 1 THEN Parsed("failed", 0, "")
       ELSE LET i == TableIndexLoop(BIT0, 0) \div 2
            IN  IF i > 15 THEN Parsed("failed", i, "")
                ELSE Parsed("old", i,
                         ReadRevision(i, "NO REVISION NAME FOR THIS BOARD"))

\* ------------------------------------------------- specifications -------
\* a class-device call, counted
Call(A) ==
    calls < MaxCalls /\ lifecycle = "bound" /\ A /\ calls' = calls + 1

\* the class-device calls with effects from kinds, Pulse targets from
\* targets and, for colour c, brightness values from In[c]
Api(kinds, targets, In) ==
    \/ \E c \in Colors : \E v \in In[c] : Call(set_brightness(c, v))
    \/ Call(update_status)
    \/ \E k \in kinds, pc \in targets \cup {pcolor} :
            Call(activate_effect(k, pc))
    \/ \E k \in kinds : Call(deactivate_effect(k))

\* Spec: the effect engine with all four effects, on four hardware PWMs
\* with four brightness levels
Configs == { Config(12, 3, << >>, RgbwPwm, "none") }

InitColors == { Zeros, Color(3, 1, 0, 2) }

EffectInputs ==
    [c \in Colors |-> IF c \in {COLOR_RED, COLOR_WHITE} THEN {0, 2} ELSE {}]

PulseTargets == {COLOR_RED, COLOR_WHITE}

Init == \E cfg \in Configs, col \in InitColors : Probe(cfg, col)

Next ==
    \/ Api(Effects, PulseTargets, EffectInputs)
    \/ rgbw_pulse_hrtimer_callback
    \/ rgbw_blink_hrtimer_callback
    \/ rgbw_hb_hrtimer_callback
    \/ rgbw_rb_hrtimer_callback

Spec == Init /\ [][Next]_vars

\* SpecBoard: Pulse, Blink and Heartbeat on four hardware PWMs with 256
\* brightness levels
BoardConfigs == { Config(DEFAULT_PERIOD, 255, << >>, RgbwPwm, "none") }

BoardColors == { Zeros, Color(200, 0, 0, 0), Color(255, 10, 3, 128) }

BoardInputs ==
    [c \in Colors |-> IF c \in {COLOR_RED, COLOR_WHITE} THEN {0, 200} ELSE {}]

BoardEffects == {"pulse", "blink", "heartbeat"}

InitBoard == \E cfg \in BoardConfigs, col \in BoardColors : Probe(cfg, col)

NextBoard ==
    \/ Api(BoardEffects, PulseTargets, BoardInputs)
    \/ rgbw_pulse_hrtimer_callback
    \/ rgbw_blink_hrtimer_callback
    \/ rgbw_hb_hrtimer_callback

SpecBoard == InitBoard /\ [][NextBoard]_vars

\* SpecDuty: the channel layer (duty-cycle mapper and soft PWM) under
\* Blink, over a range of configurations: red, green and blue on hardware
\* PWMs and white on a GPIO
DutyConfigs ==
    { Config(12, 4, << >>, RgbPwmWhiteGpio, "none"),
      Config(14, 4, << >>, RgbPwmWhiteGpio, "none"),
      Config(2, 3, << >>, RgbPwmWhiteGpio, "none"),
      Config(0, 4, << >>, RgbPwmWhiteGpio, "none"),
      Config(DEFAULT_PERIOD, 255, << >>, RgbPwmWhiteGpio, "none"),
      Config(20000000, 255, << >>, RgbPwmWhiteGpio, "none"),
      Config(1000, 3, << 0, 10, 40, 100 >>, RgbPwmWhiteGpio, "none"),
      Config(12, 4, << >>, RgbPwmWhiteGpio, "half") }

DutyColors(mb) ==
    { Zeros, Color(mb, 1, 0, mb - 1), Color(1, mb - 1, mb, 1) }

DutyInputs ==
    [c \in Colors |->
        IF c \in {COLOR_RED, COLOR_WHITE}
        THEN {v \in {0, 1, 2, 3, 4, 127, 254, 255} : v <= max_brightness}
        ELSE IF c = COLOR_GREEN THEN {max_brightness} ELSE {}]

InitDuty ==
    \E cfg \in DutyConfigs :
        \E col \in DutyColors(cfg.max_brightness) : Probe(cfg, col)

NextDuty ==
    \/ Api({"blink"}, {}, DutyInputs)
    \/ rgbw_blink_hrtimer_callback
    \/ \E t \in Colors : rgbw_gpio_hrtimer_callback(t)

SpecDuty == InitDuty /\ [][NextDuty]_vars

\* SpecLife: the channel layer under Blink followed by the remove of the
\* platform device: red, green and blue on hardware PWMs, white on a GPIO
LifeConfigs == { Config(12, 4, << >>, RgbPwmWhiteGpio, "none") }

InitLife ==
    \E cfg \in LifeConfigs :
        \E col \in DutyColors(cfg.max_brightness) : Probe(cfg, col)

NextLife ==
    \/ NextDuty
    \/ rgbw_color_remove
    \/ \E t \in Colors : rgbw_gpio_hrtimer_callback_removed(t)

SpecLife == InitLife /\ [][NextLife]_vars

\* SpecPulse: Pulse on four hardware PWMs with four brightness levels
InitPulse == \E cfg \in Configs, col \in InitColors : Probe(cfg, col)

NextPulse ==
    \/ Api({"pulse"}, PulseTargets, EffectInputs)
    \/ rgbw_pulse_hrtimer_callback

SpecPulse == InitPulse /\ [][NextPulse]_vars

\* SpecRainbow: Rainbow on four hardware PWMs with 256 brightness levels
RainbowColors == { Zeros, Color(200, 0, 0, 0) }

RainbowInputs ==
    [c \in Colors |-> IF c = COLOR_WHITE THEN {0, 255} ELSE {}]

InitRainbow ==
    \E cfg \in BoardConfigs, col \in RainbowColors : Probe(cfg, col)

NextRainbow ==
    \/ Api({"rainbow"}, {}, RainbowInputs)
    \/ rgbw_rb_hrtimer_callback

SpecRainbow == InitRainbow /\ [][NextRainbow]_vars

\* SpecTick: Pulse and Heartbeat with four brightness levels, red, green
\* and blue on hardware PWMs and white on a GPIO
InitTick ==
    Probe(Config(12, 3, << >>, RgbPwmWhiteGpio, "none"), Color(3, 1, 0, 2))

NextTick ==
    \/ Api({"pulse", "heartbeat"}, {COLOR_WHITE}, RainbowInputs)
    \/ rgbw_pulse_hrtimer_callback
    \/ rgbw_hb_hrtimer_callback
    \/ \E t \in Colors : rgbw_gpio_hrtimer_callback(t)

SpecTick == InitTick /\ [][NextTick]_vars

\* SpecWheel: Rainbow on four hardware PWMs with max_brightness from 1 to
\* MaxLevel. rgbw.h is not part of the sources: the step the probe leaves
\* is taken to be INVALID_COLOR as above or 255, a value no case of the
\* rainbow callback names
MaxLevel == 3

InitWheel ==
    \E mb \in 1 .. MaxLevel, inv \in {INVALID_COLOR, 255} :
        \E col \in {Zeros, Color(mb, 1, 0, mb - 1)} :
            ProbeAs(Config(12, mb, << >>, RgbwPwm, "none"), col, inv)

NextWheel ==
    \/ Api({"rainbow"}, {}, EffectInputs)
    \/ rgbw_rb_hrtimer_callback

SpecWheel == InitWheel /\ [][NextWheel]_vars

\* SpecProbe: rgbw_dt_probe of a device-tree node, with the calls the
\* environment makes fail, followed by the remove of a bound device
MaxChannels == 5

LevelTables ==
    { << >>, << 0 >>, << 5 >>, << 0, 10, 0 >>, << 0, 10, 40, 100 >> }

\* the first n of the names in list, starting after the first k
NamesFrom(list, k, n) ==
    [i \in 1 .. (IF n > 0 THEN n ELSE 0) |->
        IF k + i <= Len(list) THEN list[k + i] ELSE "spare"]

\* the ways a node names np PWMs and ng GPIOs: no names; the colours in
\* R-G-B-W order, PWMs first; the same with "amber" for "blue"; the
\* GPIOs first; one name only
NameLists(np, ng) ==
    LET amber == << "red", "green", "amber", "white" >>
        p == Counted(np)
        g == Counted(ng)
    IN  { << << >>, << >> >>,
          << NamesFrom(color_names, 0, p), NamesFrom(color_names, p, g) >>,
          << NamesFrom(amber, 0, p), NamesFrom(amber, p, g) >>,
          << NamesFrom(color_names, g, p), NamesFrom(color_names, 0, g) >>,
          << << "red" >>, << >> >> }

Counts == {-2} \cup (0 .. MaxChannels)

ProbeNodes ==
    { [Node(TRUE, << 0, 10, 40, 100 >>, 3, 1, << >>, << >>)
          EXCEPT !.of_node = FALSE],
      Node(FALSE, << >>, 3, 1, << >>, << >>) }
    \cup { Node(TRUE, lv, 3, 1, << >>, << >>) : lv \in LevelTables }
    \cup { Node(TRUE, lv, 2, 1, << "red", "green" >>, << "blue" >>) :
               lv \in LevelTables }
    \cup UNION { { Node(TRUE, << 0, 10, 40, 100 >>, np, ng, nm[1], nm[2]) :
                       nm \in NameLists(np, ng) } :
                 np \in Counts, ng \in Counts }

ProbeFaults ==
    { NoFault, Fault("levels", 0), Fault("kzalloc", 0),
      Fault("register", 0) }
    \cup { Fault(at, c) :
               at \in {"pwm_get", "gpio_request", "gpio_direction_output"},
               c \in Colors }

\* the platform device before the probe
Unbound ==
    /\ lifecycle = "unbound"
    /\ ret = 0
    /\ registered = FALSE
    /\ requested = {}
    /\ divzero = FALSE
    /\ stage = "none"
    /\ period = 0
    /\ lth_brightness = 0
    /\ max_brightness = 0
    /\ levels = << >>
    /\ types = [c \in Colors |-> "NONE"]
    /\ notify = "none"
    /\ brightness = Zeros
    /\ cntr = Zeros
    /\ rgbw_values = Zeros
    /\ state = {}
    /\ bstate = 0
    /\ pcolor = 0
    /\ rgbw_hrtimer = {}
    /\ interval = [e \in Effects |-> 0]
    /\ pwm_duty = Zeros
    /\ pwm_period = Zeros
    /\ pwm_enabled = [c \in Colors |-> FALSE]
    /\ value = Zeros
    /\ gpio = Zeros
    /\ pwm_timer = [c \in Colors |-> FALSE]
    /\ next_tick = Zeros
    /\ calls = 0
    /\ upd = {}
    /\ pre = [valid |-> FALSE, color |-> Zeros]
    /\ toggle = [c \in Colors |-> << NoFiring, NoFiring >>]

InitProbe == dt \in ProbeNodes /\ Unbound /\ NoRevision /\ NoCallback

NextProbe ==
    \/ \E fail \in ProbeFaults : rgbw_dt_probe(fail)
    \/ rgbw_color_remove

SpecProbe == InitProbe /\ [][NextProbe]_vars

\* SpecPeriod: the probe followed by the channel layer under Blink
InitPeriod == InitProbe

NextPeriod ==
    \/ NextProbe
    \/ Api({"blink"}, {}, [c \in Colors |-> {1} \ {c}])
    \/ rgbw_blink_hrtimer_callback

SpecPeriod == InitPeriod /\ [][NextPeriod]_vars

\* SpecRace: one soft PWM (white on a GPIO) or two (blue and white) whose
\* callbacks run in steps, interleaved with each other and with
\* set_brightness
InitRace ==
    \E ty \in {RgbPwmWhiteGpio, Color("PWM", "PWM", "GPIO", "GPIO")} :
        Probe(Config(12, 3, << >>, ty, "none"), Color(0, 0, 1, 2))

NextRace ==
    \/ \E c \in {COLOR_BLUE, COLOR_WHITE} : \E v \in {0, 2, 3} :
            Call(set_brightness(c, v))
    \/ \E t \in Colors : gpio_callback_enter(t)
    \/ \E t \in Colors : gpio_callback_loop(t)
    \/ \E t \in Colors : gpio_callback_return(t)

SpecRace == InitRace /\ [][NextRace]_vars

\* SpecStep: Blink, Heartbeat and Rainbow, which share acts.bstate, on
\* four hardware PWMs, from the step the probe leaves (INVALID_COLOR as
\* above or 255)
InitStep ==
    \E inv \in {INVALID_COLOR, 255} :
        ProbeAs(Config(12, 3, << >>, RgbwPwm, "none"), Color(3, 1, 0, 2), inv)

NextStep ==
    \/ Api({"blink", "heartbeat", "rainbow"}, {}, RainbowInputs)
    \/ rgbw_blink_hrtimer_callback
    \/ rgbw_hb_hrtimer_callback
    \/ rgbw_rb_hrtimer_callback

SpecStep == InitStep /\ [][NextStep]_vars

\* SpecRev: the two copies of the HW/ASSY revision driver reading the
\* four GPIOs addr0 .. addr3, with the RGBW device not probed
LookupTables ==
    { << >>,
      << "Rev_1-0", "Rev_1-1.2", "Rev_2.1" >>,
      << "Rev_1-0", "Rev_1-1.2", "Rev_2.1", "", "", "", "", "",
         "Rev_8", "Rev_9", "Rev_A" >>,
      [i \in 1 .. 16 |-> "Rev_X"] }

InitRev ==
    /\ dt = Node(TRUE, << 0, 10, 40, 100 >>, 3, 1, << >>, << >>)
    /\ Unbound
    /\ NoCallback
    /\ addr \in [BIT0 .. BIT3 -> {0, 1}]
    /\ lookup_table \in LookupTables
    /\ parsed = "none"
    /\ table_index = 0
    /\ revision = ""

NextRev == hwassyv_parse_dt \/ hwassyv_c_parse_dt

SpecRev == InitRev /\ [][NextRev]_vars

TypeOK ==
    /\ state \subseteq Effects
    /\ rgbw_hrtimer \subseteq Effects
    /\ calls \in 0 .. MaxCalls
    /\ lifecycle \in {"unbound", "bound", "failed", "fault", "removed"}
    /\ requested \subseteq Colors

\* ---------------------------------------------------------- claims ------
\* a firing of the timer of effect e
Callback(e) ==
    CASE e = "pulse" -> rgbw_pulse_hrtimer_callback
      [] e = "blink" -> rgbw_blink_hrtimer_callback
      [] e = "heartbeat" -> rgbw_hb_hrtimer_callback
      [] OTHER -> rgbw_rb_hrtimer_callback

\* C1: at most one effect bit is set in every reachable state, and
\* activating effect B while effect A is active leaves exactly B's bit
\* set, with the brightness restored to A's saved colour (which is also
\* what B snapshots).
C1_OneEffect ==
    /\ Cardinality(state) <= 1
    /\ [][ /\ Cardinality(state') <= 1
           /\ \A k \in Effects : \A pc \in Colors \cup {pcolor} :
                (activate_effect(k, pc) /\ state # {}) =>
                    /\ state' = {k}
                    /\ brightness' = rgbw_values
                    /\ rgbw_values' = rgbw_values ]_vars

\* Blink is active, having replaced a Pulse that had ticked and whose
\* timer has not fired since
C1_Witness ==
    /\ state = {"blink"}
    /\ "pulse" \in rgbw_hrtimer
    /\ cntr[COLOR_RED] > 0
    /\ brightness = Color(3, 1, 0, 2)

\* C2: once an effect that was activated has been deactivated, with only
\* timer firings in between and after, every colour has the brightness it
\* had when the effect was activated.
C2_RoundTrip ==
    (state = {} /\ pre.valid) => brightness = pre.color

\* Pulse on red has been activated on a lit colour, has ticked and has
\* been deactivated
C2_Witness ==
    /\ state = {}
    /\ pre.valid
    /\ pre.color = Color(3, 1, 0, 2)
    /\ cntr[COLOR_RED] > 1

\* C3: a firing of an effect timer whose bit is not set leaves the timer
\* stopped, changes no brightness, neither counter and no PWM, and does
\* not enter the update path; a stopped timer is only armed again by the
\* activation of its effect.
C3_SelfCancel ==
    [][ \A e \in Effects :
          /\ (Callback(e) /\ e \notin state) =>
                /\ e \notin rgbw_hrtimer'
                /\ upd' = {}
                /\ UNCHANGED << brightness, bstate, cntr, state, pcolor,
                                rgbw_values, hwvars, softvars >>
          /\ (e \notin rgbw_hrtimer /\ e \in rgbw_hrtimer') => e \in state'
      ]_vars

\* every effect timer has stopped after Heartbeat ticked and was
\* deactivated
C3_Witness ==
    /\ state = {}
    /\ rgbw_hrtimer = {}
    /\ bstate \in 0 .. 3
    /\ calls = 2

\* the brightness the mapper works on for colour c: the stored brightness
\* as returned by the notify hook
Mapped(c) == NotifyOf(brightness[c])

\* colour c is a hardware PWM that the last step updated, without a
\* levels table, for a brightness strictly between 0 and max_brightness
Partial(c) ==
    /\ c \in upd
    /\ types[c] = "PWM"
    /\ levels = << >>
    /\ 0 < Mapped(c)
    /\ Mapped(c) < max_brightness

C5_FullOn ==
    \A c \in Colors :
        ( /\ c \in upd
          /\ types[c] = "PWM"
          /\ levels = << >>
          /\ Mapped(c) = max_brightness )
        => pwm_duty[c] = period

\* C6: in the state a full update (rgbw_color_update) leaves, every
\* hardware-PWM channel whose notified brightness is 0 is configured with
\* duty 0 and the shared period and is disabled, and every other
\* hardware-PWM channel is configured with the formula duty
\* lth + raw * (period - lth) / max (where the product is below 2^31) and the
\* shared period and is enabled; this holds for all four slots at once.
C6_FullRefresh ==
    (upd = Colors) =>
        \A c \in Colors :
            (types[c] = "PWM") =>
                /\ pwm_period[c] = period
                /\ pwm_enabled[c] = (Mapped(c) # 0)
                /\ (Mapped(c) = 0) => pwm_duty[c] = 0
                /\ (Mapped(c) # 0) =>
                        pwm_duty[c] = DutyCycle(Mapped(c), max_brightness)
                /\ ( /\ Mapped(c) # 0
                     /\ Raw(Mapped(c)) # 0
                     /\ period - lth_brightness
                            <= 2147483647 \div Raw(Mapped(c)) )
                   => pwm_duty[c] = lth_brightness +
                        ((Raw(Mapped(c)) * (period - lth_brightness))
                            \div max_brightness)

\* a Blink tick has put the saved colour (4, 1, 0, 3) back: red and green
\* are enabled with their duty, blue is configured with 0 and disabled
C6_Witness ==
    /\ upd = Colors
    /\ state = {"blink"}
    /\ bstate = 0
    /\ period = 12
    /\ notify = "none"
    /\ brightness = Color(4, 1, 0, 3)
    /\ pwm_duty[COLOR_RED] = 12 /\ pwm_enabled[COLOR_RED]
    /\ pwm_duty[COLOR_GREEN] = 5 /\ pwm_enabled[COLOR_GREEN]
    /\ pwm_duty[COLOR_BLUE] = 0 /\ ~pwm_enabled[COLOR_BLUE]

\* C7: for a soft-PWM channel whose last two firings read the same
\* brightness b, 0 < b < max_brightness, the two firings drove opposite
\* levels, the one that drove High computed the delay b * lth_brightness
\* and the one that drove Low the delay period - b * lth_brightness, so
\* the two delays add up to the period; a delay above 0 is the one the
\* timer is armed with.
C7_FullCycle ==
    \A c \in Colors :
        LET p == toggle[c][1]
            q == toggle[c][2]
        IN  ( /\ types[c] = "GPIO"
              /\ p.b = q.b
              /\ 0 < q.b
              /\ q.b < max_brightness )
            => /\ p.value = 1 - q.value
               /\ \A f \in {p, q} :
                    f.ns = IF f.value = 1
                           THEN f.b * lth_brightness
                           ELSE period - f.b * lth_brightness
               /\ p.ns + q.ns = period
               /\ (q.ns > 0) => (pwm_timer[c] /\ next_tick[c] = q.ns)

\* white at 254 of 255 on the 7.65 ms period has gone High for 7620000 ns
\* and then Low for 30000 ns
C7_Witness ==
    /\ period = DEFAULT_PERIOD
    /\ toggle[COLOR_WHITE][1] = Firing(254, 1, 7620000)
    /\ toggle[COLOR_WHITE][2] = Firing(254, 0, 30000)
    /\ gpio[COLOR_WHITE] = 0
    /\ pwm_timer[COLOR_WHITE]

\* C8: a firing of the soft-PWM callback with brightness >= max_brightness
\* drives the output High and leaves the timer stopped; a firing with
\* brightness == 0 drives the output Low and leaves the timer stopped;
\* while the timer is stopped the output keeps its level, and the timer is
\* only armed again by an update of the channel.
C8_Steady ==
    [][ \A c \in Colors :
          /\ (rgbw_gpio_hrtimer_callback(c)
                /\ brightness[c] >= max_brightness)
             => (gpio'[c] = 1 /\ value'[c] = 1 /\ ~pwm_timer'[c])
          /\ (rgbw_gpio_hrtimer_callback(c) /\ brightness[c] = 0)
             => (gpio'[c] = 0 /\ value'[c] = 0 /\ ~pwm_timer'[c])
          /\ (~pwm_timer[c])
             => (gpio'[c] = gpio[c] /\ (pwm_timer'[c] => c \in upd'))
      ]_vars

\* white has been set to max_brightness and its timer has fired: the
\* output is High and the timer is stopped
C8_Witness ==
    /\ types[COLOR_WHITE] = "GPIO"
    /\ brightness[COLOR_WHITE] = max_brightness
    /\ toggle[COLOR_WHITE][2] = Firing(max_brightness, 1, 0)
    /\ gpio[COLOR_WHITE] = 1
    /\ ~pwm_timer[COLOR_WHITE]

\* C9 as stated: with Pulse active, a tick that finds the target's
\* counter at i < 75 writes entry i of the table and leaves the counter
\* at i + 1, and the index wraps to 0 after index 74: a tick that finds
\* the counter at 75 writes entry 0 and leaves the counter at 1 (the
\* table has exactly 75 entries).
C9_Original ==
    [][ (rgbw_pulse_hrtimer_callback /\ "pulse" \in state) =>
             LET i == cntr[pcolor] % 75 IN
             /\ brightness'[pcolor] = pulse_val_table[i + 1]
             /\ cntr'[pcolor] = i + 1
      ]_vars

\* C9: the pulse table has exactly 80 entries, 0,1,2,3,4,6,8 ... 254,
\* 254, 254 ... 0,0,0,0; with Pulse active, a tick that finds the target's
\* counter at i < 80 writes entry i to the target's brightness and leaves
\* the counter at i + 1, and a tick that finds it at 80 (index 79 was the
\* last one written) writes entry 0 and leaves the counter at 1: from
\* counter 0, 80 ticks write the whole table in order and the next 80
\* ticks write it again. No other colour is written and the timer is
\* forwarded by PULSE_VALUE_PER_NS.
C9_PulseTable ==
    /\ Len(pulse_val_table) = 80
    /\ SubSeq(pulse_val_table, 1, 7) = << 0, 1, 2, 3, 4, 6, 8 >>
    /\ SubSeq(pulse_val_table, 38, 40) = << 254, 254, 254 >>
    /\ SubSeq(pulse_val_table, 77, 80) = << 0, 0, 0, 0 >>
    /\ \A k \in 1 .. 80 : pulse_val_table[k] \in 0 .. 254
    /\ \A c \in Colors : cntr[c] \in 0 .. 80
    /\ [][ (rgbw_pulse_hrtimer_callback /\ "pulse" \in state) =>
             LET i == cntr[pcolor] % 80 IN
             /\ brightness'[pcolor] = pulse_val_table[i + 1]
             /\ cntr'[pcolor] = i + 1
             /\ \A c \in Colors \ {pcolor} :
                    brightness'[c] = brightness[c] /\ cntr'[c] = cntr[c]
             /\ interval'["pulse"] = PULSE_VALUE_PER_NS
             /\ "pulse" \in rgbw_hrtimer'
         ]_vars

\* Pulse on red has written the last entry of the table: the counter is
\* 80 and the next tick wraps
C9_Witness ==
    /\ state = {"pulse"}
    /\ pcolor = COLOR_RED
    /\ cntr[COLOR_RED] = 80
    /\ brightness[COLOR_RED] = 0
    /\ "pulse" \in rgbw_hrtimer

\* C10: with Heartbeat active and the saved colour (200, 0, 0, 0), a tick
\* at step 0 writes (200, 0, 0, 0) and is forwarded by 100 ms, a tick at
\* step 1 writes (0, 0, 0, 0) and is forwarded by 100 ms, a tick at step 2
\* writes (200, 0, 0, 0) and is forwarded by 100 ms, a tick at step 3
\* writes (0, 0, 0, 0) and is forwarded by 700 ms; each tick leaves the
\* next step, step 3 leaves step 0; every channel is off during the
\* 700 ms.
C10_Heartbeat ==
    [][ ( /\ rgbw_hb_hrtimer_callback
          /\ "heartbeat" \in state
          /\ rgbw_values = Color(200, 0, 0, 0)
          /\ bstate \in 0 .. 3 )
        => /\ brightness' =
                (IF bstate \in {0, 2} THEN Color(200, 0, 0, 0) ELSE Zeros)
           /\ interval'["heartbeat"] =
                (IF bstate = 3 THEN 700000000 ELSE 100000000)
           /\ bstate' = (bstate + 1) % 4
           /\ "heartbeat" \in rgbw_hrtimer'
           /\ (bstate = 3) =>
                \A c \in Colors : brightness'[c] = 0 /\ ~pwm_enabled'[c]
      ]_vars

\* the third tick of a cycle has lit red again and the 700 ms step is next
C10_Witness ==
    /\ state = {"heartbeat"}
    /\ rgbw_values = Color(200, 0, 0, 0)
    /\ bstate = 3
    /\ brightness = Color(200, 0, 0, 0)
    /\ interval["heartbeat"] = HB_SHORT_NS
    /\ pwm_enabled[COLOR_RED]

\* C11: with the Blink bit set, a tick at step 0 writes 0 to all four
\* channels and leaves step 1, a tick at any other step writes the saved
\* colour to all four channels and leaves step 0, so successive ticks
\* alternate; every tick forwards the timer by BLINK_STATE_PER_NS and
\* leaves it armed; between two ticks, while the bit stays set, nothing
\* changes the step.
C11_BlinkAlternates ==
    [][ /\ (rgbw_blink_hrtimer_callback /\ "blink" \in state) =>
              /\ brightness' = (IF bstate = 0 THEN Zeros ELSE rgbw_values)
              /\ bstate' = (IF bstate = 0 THEN 1 ELSE 0)
              /\ interval'["blink"] = BLINK_STATE_PER_NS
              /\ "blink" \in rgbw_hrtimer'
              /\ upd' = Colors
        /\ ("blink" \in state /\ "blink" \in state'
              /\ ~rgbw_blink_hrtimer_callback) => bstate' = bstate
      ]_vars

\* Blink over the colour (3, 1, 0, 2) has ticked more than once: the last
\* tick switched every channel off and the next one restores the colour
C11_Witness ==
    /\ state = {"blink"}
    /\ rgbw_values = Color(3, 1, 0, 2)
    /\ brightness = Zeros
    /\ bstate = 1
    /\ interval["blink"] = BLINK_STATE_PER_NS
    /\ \A c \in Colors : ~pwm_enabled[c]

\* C12: with Rainbow active in step 0, max_brightness = 255 and Red = 255,
\* a tick that finds Green at g, 0 <= g <= 254, leaves Red at 255, Green
\* at g + 1 and Blue and White as they were, and stays in step 0 unless
\* g = 254, when it moves to step 1: from Green = 0 it takes 255 ticks,
\* which find Green at 0, 1 ... 254, to reach step 1.
C12_RainbowStep0 ==
    [][ ( /\ rgbw_rb_hrtimer_callback
          /\ "rainbow" \in state
          /\ bstate = 0
          /\ max_brightness = 255
          /\ brightness[COLOR_RED] = 255
          /\ brightness[COLOR_GREEN] \in 0 .. 254 )
        => /\ brightness'[COLOR_RED] = 255
           /\ brightness'[COLOR_GREEN] = brightness[COLOR_GREEN] + 1
           /\ brightness'[COLOR_BLUE] = brightness[COLOR_BLUE]
           /\ brightness'[COLOR_WHITE] = brightness[COLOR_WHITE]
           /\ bstate' = (IF brightness[COLOR_GREEN] = 254 THEN 1 ELSE 0)
           /\ "rainbow" \in rgbw_hrtimer'
      ]_vars

\* the 255th tick of step 0 has moved the effect to step 1 with Red still
\* at 255
C12_Witness ==
    /\ state = {"rainbow"}
    /\ bstate = 1
    /\ max_brightness = 255
    /\ brightness[COLOR_RED] = 255
    /\ brightness[COLOR_GREEN] = 255
    /\ brightness[COLOR_BLUE] = 0
    /\ interval["rainbow"] = PULSE_VALUE_PER_NS

\* C13 as stated: once rgbw_color_remove has completed, no effect timer
\* and no soft-PWM timer is armed, every hardware-PWM channel is
\* configured with duty 0 and disabled, every soft-PWM output is low, and
\* no GPIO is written any more.
C13_Shutdown ==
    [][ (lifecycle' = "removed") =>
          /\ rgbw_hrtimer' = {}
          /\ \A c \in Colors :
                /\ (types[c] = "PWM") =>
                        (pwm_duty'[c] = 0 /\ ~pwm_enabled'[c])
                /\ (types[c] = "GPIO") =>
                        (~pwm_timer'[c] /\ gpio'[c] = 0)
          /\ (lifecycle = "removed") =>
                ~ \E t \in Colors : rgbw_gpio_hrtimer_callback_removed(t)
      ]_vars

\* C14 as stated: in every reachable state every channel's brightness
\* satisfies 0 <= brightness <= max_brightness, whatever max_brightness
\* is configured.
C14_InRange ==
    \A c \in Colors : 0 <= brightness[c] /\ brightness[c] <= max_brightness

\* the number of colours the node defines with "pwms" and "gpios"
DefinedColors == Counted(dt.pwms) + Counted(dt.gpios)

\* the number of names the node gives in "pwm-names" and "gpio-names"
DefinedNames == Len(dt.pwm_names) + Len(dt.gpio_names)

\* the node gives a zero max_brightness: no level, one level, or a table
\* whose last entry is 0
ZeroMax ==
    /\ dt.of_node
    /\ dt.has_levels
    /\ \/ Len(dt.levels) <= 1
       \/ dt.levels[Len(dt.levels)] = 0

\* C15 as stated: a probe of a node with a zero max_brightness fails, and
\* no division by zero has been evaluated
C15_ZeroMaxRejected ==
    (lifecycle # "unbound" /\ ZeroMax) =>
        (lifecycle = "failed" /\ ~divzero)

\* C16: a probe of a node that defines fewer than 3 or more than 4
\* colours (PWMs plus GPIOs) fails with a negative result before it
\* acquires a channel or registers a device; with 3 or 4 colours the
\* validation only fails when names are given and their number differs
C16_ChannelCount ==
    lifecycle # "unbound" =>
        /\ (DefinedColors < 3 \/ DefinedColors > 4) =>
              /\ lifecycle = "failed"
              /\ ret < 0
              /\ stage \in {"rgbw_parse_dt", "rgbw_dt_validation"}
              /\ requested = {}
              /\ ~registered
              /\ \A c \in Colors : types[c] = "NONE"
        /\ (DefinedColors \in 3 .. 4 /\ stage = "rgbw_dt_validation") =>
              (DefinedNames > 0 /\ DefinedNames # DefinedColors)

C16_Witness ==
    /\ lifecycle = "failed"
    /\ stage = "rgbw_dt_validation"
    /\ dt.pwms = 3
    /\ dt.gpios = 2
    /\ ret = -EINVAL
    /\ requested = {}
    /\ ~registered

\* the name of colour c is in neither "pwm-names" nor "gpio-names"
Nameless(c) ==
    /\ of_property_match_string(dt.pwm_names, color_names[c + 1]) < 0
    /\ of_property_match_string(dt.gpio_names, color_names[c + 1]) < 0

\* C17 as stated: when names are given and the name of one of the first
\* N colours (N the number of names) is in neither list, a probe that
\* reaches the validation stops there with an error
C17_MissingName ==
    (/\ lifecycle # "unbound"
     /\ stage # "rgbw_parse_dt"
     /\ DefinedNames > 0
     /\ \E c \in Colors : c < DefinedNames /\ Nameless(c)) =>
        (lifecycle = "failed" /\ stage = "rgbw_dt_validation" /\ ret < 0)

\* C18 as stated: a probe that stops because a PWM or a GPIO could not
\* be acquired returns a negative value, has registered no device and
\* holds no GPIO
C18_AcquireFails ==
    stage \in {"pwm_get", "gpio_request", "gpio_direction_output"} =>
        (ret < 0 /\ ~registered /\ requested = {})

\* the binary number 0b{addr3}{addr2}{addr1}{addr0}
BinaryNumber == 8 * addr[3] + 4 * addr[2] + 2 * addr[1] + addr[0]

\* C19: the newer hwassyv_parse_dt computes the binary number
\* 0b{addr3}{addr2}{addr1}{addr0} as the table index, so that addr0 High
\* alone gives index 1, and reports "INVALID HW / ASSY REVISION VALUE"
\* when the lookup table has no entry at that index, the entry otherwise
C19_TableIndex ==
    parsed = "new" =>
        /\ table_index = BinaryNumber
        /\ (addr = [b \in BIT0 .. BIT3 |-> IF b = BIT0 THEN 1 ELSE 0]) =>
              table_index = 1
        /\ table_index >= Len(lookup_table) =>
              revision = "INVALID HW / ASSY REVISION VALUE"
        /\ table_index < Len(lookup_table) =>
              revision = lookup_table[table_index + 1]

C19_Witness ==
    /\ parsed = "new"
    /\ addr = [b \in BIT0 .. BIT3 |-> IF b \in {1, 3} THEN 1 ELSE 0]
    /\ Len(lookup_table) = 3
    /\ table_index = 10
    /\ revision = "INVALID HW / ASSY REVISION VALUE"

\* C20 as stated: the hwassyv_parse_dt of src/hwassyv.c computes the
\* binary number 0b{addr3}{addr2}{addr1}{addr0} as the table index
C20_SameIndex ==
    parsed = "old" => table_index = BinaryNumber

\* C21 as stated: a Heartbeat tick taken at step 0 or 2 writes 0 to all
\* four channels and a tick taken at step 1 or 3 writes the saved colour
C21_Original ==
    [][ (/\ rgbw_hb_hrtimer_callback
         /\ "heartbeat" \in state
         /\ bstate \in 0 .. 3)
        => brightness' = (IF bstate \in {0, 2} THEN Zeros ELSE rgbw_values)
      ]_vars

\* C21: a Heartbeat tick taken at an even step (0 or 2) writes the saved
\* colour to all four channels and a tick taken at an odd step (1 or 3,
\* or the odd step the probe leaves) writes 0 to all four channels; the
\* update that follows is the full one
C21_HeartbeatParity ==
    [][ (rgbw_hb_hrtimer_callback /\ "heartbeat" \in state)
        => /\ brightness' = (IF bstate % 2 = 0 THEN rgbw_values ELSE Zeros)
           /\ upd' = Colors
           /\ UNCHANGED rgbw_values
      ]_vars

\* Heartbeat on the saved colour (3, 1, 0, 2): the tick at step 1 has
\* just put every channel out
C21_Witness ==
    /\ state = {"heartbeat"}
    /\ rgbw_values = Color(3, 1, 0, 2)
    /\ bstate = 2
    /\ brightness = Zeros
    /\ interval["heartbeat"] = HB_SHORT_NS
    /\ upd = Colors

\* C22 as stated: a Rainbow tick changes exactly one of Red, Green, Blue,
\* by exactly 1, the other two are unchanged with one of them at
\* max_brightness and the other at 0, and the step advances to the next
\* of the six exactly when the moving channel reaches 0 or max_brightness
C22_WheelStep ==
    [][ (rgbw_rb_hrtimer_callback /\ "rainbow" \in state)
        => \E m \in {COLOR_RED, COLOR_GREEN, COLOR_BLUE} :
              LET o == {COLOR_RED, COLOR_GREEN, COLOR_BLUE} \ {m} IN
              /\ brightness'[m] - brightness[m] \in {-1, 1}
              /\ \A c \in o : brightness'[c] = brightness[c]
              /\ {brightness[c] : c \in o} = {0, max_brightness}
              /\ (bstate' # bstate)
                    <=> (brightness'[m] \in {0, max_brightness})
              /\ (bstate' # bstate) => bstate' = (bstate + 1) % 6
      ]_vars

\* C23 as stated: a Rainbow tick leaves the brightness of White as it is,
\* whatever the step it is taken at
C23_WhiteUntouched ==
    [][ (rgbw_rb_hrtimer_callback /\ "rainbow" \in state)
        => brightness'[COLOR_WHITE] = brightness[COLOR_WHITE]
      ]_vars

\* C24: a Pulse tick writes the brightness and the table index of the
\* targeted channel only: the brightness and index of the other three
\* channels, the step and the saved colour are unchanged, the update runs
\* for the targeted channel alone, no other hardware PWM and no other
\* soft-PWM timer is touched, and no output level is written
C24_PulseFrame ==
    [][ (rgbw_pulse_hrtimer_callback /\ "pulse" \in state)
        => /\ \A c \in Colors \ {pcolor} :
                 /\ brightness'[c] = brightness[c]
                 /\ cntr'[c] = cntr[c]
                 /\ pwm_duty'[c] = pwm_duty[c]
                 /\ pwm_period'[c] = pwm_period[c]
                 /\ pwm_enabled'[c] = pwm_enabled[c]
                 /\ pwm_timer'[c] = pwm_timer[c]
                 /\ next_tick'[c] = next_tick[c]
           /\ upd' = {pcolor}
           /\ UNCHANGED << bstate, rgbw_values, pcolor, value, gpio >>
      ]_vars

\* Pulse on white, a GPIO whose timer had stopped at brightness 0: the
\* second tick has written 1 and started the timer, red is as it was
C24_Witness ==
    /\ state = {"pulse"}
    /\ pcolor = COLOR_WHITE
    /\ types[COLOR_WHITE] = "GPIO"
    /\ cntr[COLOR_WHITE] = 2
    /\ brightness = Color(3, 1, 0, 1)
    /\ upd = {COLOR_WHITE}
    /\ pwm_timer[COLOR_WHITE]
    /\ next_tick[COLOR_WHITE] = GPIO_START_NS
    /\ gpio[COLOR_WHITE] = 0
    /\ pwm_duty[COLOR_RED] = 12

\* C25: at the end of an effect tick every hardware PWM is configured for
\* the brightness the channel has after the tick (duty 0 and disabled for
\* 0, the mapped duty and enabled otherwise), and every GPIO channel the
\* update walked has its timer armed, started by the update when it was
\* not active
C25_TickOrder ==
    [][ \A e \in Effects :
          (Callback(e) /\ e \in state) =>
              \A c \in Colors :
                 /\ (types[c] = "PWM") =>
                       /\ pwm_duty'[c] = PwmConfig(NotifyOf(brightness'[c])).duty
                       /\ pwm_enabled'[c] =
                              PwmConfig(NotifyOf(brightness'[c])).enabled
                       /\ pwm_period'[c] = period
                 /\ (types[c] = "GPIO" /\ c \in upd') =>
                       /\ pwm_timer'[c]
                       /\ next_tick'[c] =
                            (IF pwm_timer[c] THEN next_tick[c]
                             ELSE GPIO_START_NS)
      ]_vars

\* Heartbeat with white on a GPIO: the tick at step 0 has restored the
\* colour (3, 1, 0, 2), red and green are driven with its duty and the
\* timer of white, stopped while the colour was out, has been started
C25_Witness ==
    /\ state = {"heartbeat"}
    /\ bstate = 1
    /\ brightness = Color(3, 1, 0, 2)
    /\ upd = Colors
    /\ pwm_duty[COLOR_RED] = 12 /\ pwm_enabled[COLOR_RED]
    /\ pwm_duty[COLOR_GREEN] = 6 /\ pwm_enabled[COLOR_GREEN]
    /\ ~pwm_enabled[COLOR_BLUE]
    /\ types[COLOR_WHITE] = "GPIO"
    /\ pwm_timer[COLOR_WHITE]
    /\ next_tick[COLOR_WHITE] = GPIO_START_NS

\* C26: a step that runs an update path leaves every stored level and
\* every output level as it was; for a GPIO channel it leaves an active
\* timer active with its expiry unchanged, starts an idle timer of a
\* channel it walks at 1000 ns, and leaves an idle timer of any other
\* channel idle
C26_UpdateStartsOnly ==
    [][ (upd' # {}) =>
          /\ value' = value
          /\ gpio' = gpio
          /\ \A c \in Colors :
                (types[c] = "GPIO") =>
                    IF pwm_timer[c]
                    THEN pwm_timer'[c] /\ next_tick'[c] = next_tick[c]
                    ELSE IF c \in upd'
                         THEN pwm_timer'[c] /\ next_tick'[c] = GPIO_START_NS
                         ELSE ~pwm_timer'[c] /\ next_tick'[c] = next_tick[c]
      ]_vars

\* the full update has just run while the timer of white, a GPIO channel,
\* was armed for the rest of its period: the expiry is still the one the
\* soft-PWM callback set, and the output is still High
C26_Witness ==
    /\ upd = Colors
    /\ types[COLOR_WHITE] = "GPIO"
    /\ pwm_timer[COLOR_WHITE]
    /\ next_tick[COLOR_WHITE] \notin {0, GPIO_START_NS}
    /\ value[COLOR_WHITE] = 1
    /\ gpio[COLOR_WHITE] = 1

\* C28 as stated: every firing of the soft-PWM callback that read an
\* intermediate brightness (0 < b < max_brightness) computed a strictly
\* positive interval, so that it rescheduled its timer
C28_PositiveIntervals ==
    \A c \in Colors :
        (types[c] = "GPIO") =>
            \A i \in 1 .. 2 :
                (toggle[c][i].b > 0 /\ toggle[c][i].b < max_brightness)
                    => toggle[c][i].ns > 0

\* C30: once the device is bound the shared period is the period of the
\* PWM device of the first colour, in Red, Green, Blue, White order, that
\* is a hardware PWM, or 7650000 when no colour is one, and it stays so
\* through every later call and tick; every hardware PWM has been
\* configured with that period
C30_SharedPeriod ==
    (lifecycle = "bound") =>
        /\ \/ /\ \A c \in Colors : types[c] # "PWM"
              /\ period = 7650000
           \/ \E c \in Colors :
                 /\ types[c] = "PWM"
                 /\ \A d \in Colors : (d < c) => types[d] # "PWM"
                 /\ period = dt.period[c]
        /\ \A c \in Colors : (types[c] = "PWM") => pwm_period[c] = period

\* red is a GPIO and green the first hardware PWM: the period is green's
\* 16 ns, not the 20 ns of blue, and blue has been set to brightness 1
\* and is driven with the 16 ns period
C30_Witness ==
    /\ lifecycle = "bound"
    /\ types[COLOR_RED] = "GPIO"
    /\ types[COLOR_GREEN] = "PWM"
    /\ types[COLOR_BLUE] = "PWM"
    /\ period = 16
    /\ dt.period[COLOR_BLUE] = 20
    /\ calls > 0
    /\ brightness[COLOR_BLUE] = 1
    /\ pwm_enabled[COLOR_BLUE]
    /\ pwm_period[COLOR_GREEN] = 16
    /\ pwm_period[COLOR_BLUE] = 16

\* C27 as stated: a soft-PWM timer that is stopped, with no callback of it
\* in flight, has left its channel where the brightness wants it: Low
\* with brightness 0 or High with brightness >= max_brightness, and never
\* with an intermediate brightness. Stated for a channel that is the only
\* soft PWM of the device, where no other callback acts on it.
C27_StoppedMatches ==
    \A c \in Colors :
        ( /\ lifecycle = "bound"
          /\ types[c] = "GPIO"
          /\ \A d \in Colors \ {c} : types[d] # "GPIO"
          /\ ~pwm_timer[c] ) =>
            \/ brightness[c] = 0 /\ gpio[c] = 0
            \/ brightness[c] >= max_brightness /\ gpio[c] = 1

\* C29 as stated: the loop of the callback of the timer of channel t
\* writes the stored level and the output of channel t only, and the
\* delay it computes is the one of the brightness of channel t
C29_OwnChannel ==
    [][ \A t \in Colors :
          gpio_callback_loop(t) =>
              /\ \A c \in Colors \ {t} :
                     value'[c] = value[c] /\ gpio'[c] = gpio[c]
              /\ hrtimer_next_tick'[t] =
                     (IF brightness[t] = 0 \/ brightness[t] >= max_brightness
                      THEN 0
                      ELSE IF value'[t] = 1
                      THEN brightness[t] * lth_brightness
                      ELSE period - brightness[t] * lth_brightness)
      ]_vars

\* C31 as stated: once the device is bound lth_brightness is the period
\* divided by max_brightness, the value the duty-cycle formula divides by
\* and the bound of the brightness, with a levels table as without one
\* (where no divisor is 0)
C31_LthDivisor ==
    (lifecycle = "bound" /\ max_brightness > 0 /\ ~divzero) =>
        lth_brightness = period \div max_brightness

\* the states of the colour wheel: in step 0 Red is at max_brightness,
\* Blue at 0 and Green below max_brightness, and so on round the wheel
OnWheel ==
    LET m == max_brightness
        r == brightness[COLOR_RED]
        g == brightness[COLOR_GREEN]
        b == brightness[COLOR_BLUE]
    IN  CASE bstate = 0 -> r = m /\ b = 0 /\ g \in 0 .. m - 1
          [] bstate = 1 -> g = m /\ b = 0 /\ r \in 1 .. m
          [] bstate = 2 -> r = 0 /\ g = m /\ b \in 0 .. m - 1
          [] bstate = 3 -> r = 0 /\ b = m /\ g \in 1 .. m
          [] bstate = 4 -> g = 0 /\ b = m /\ r \in 0 .. m - 1
          [] bstate = 5 -> r = m /\ g = 0 /\ b \in 1 .. m
          [] OTHER -> FALSE

\* the number of ticks that lead from the reset state (step 0, Red at
\* max_brightness, Green and Blue at 0) to a state of the wheel
WheelPos ==
    LET m == max_brightness
        r == brightness[COLOR_RED]
        g == brightness[COLOR_GREEN]
        b == brightness[COLOR_BLUE]
    IN  CASE bstate = 0 -> g
          [] bstate = 1 -> m + (m - r)
          [] bstate = 2 -> 2 * m + b
          [] bstate = 3 -> 3 * m + (m - g)
          [] bstate = 4 -> 4 * m + r
          [] OTHER -> 5 * m + (m - b)

\* C32: a Rainbow tick taken on the wheel, a number n of ticks after the
\* reset state, leaves the effect on the wheel n + 1 ticks after it, in
\* the step (n + 1) div max_brightness, and 6 * max_brightness ticks after
\* the reset state is the reset state again: the six steps are visited in
\* the order 0 .. 5 with max_brightness ticks in each
C32_WheelCycle ==
    [][ (rgbw_rb_hrtimer_callback /\ "rainbow" \in state /\ OnWheel)
        => /\ OnWheel'
           /\ WheelPos' = (WheelPos + 1) % (6 * max_brightness)
           /\ bstate' = WheelPos' \div max_brightness
      ]_vars

\* with max_brightness 2 the wheel has come round to its last state,
\* step 5 with Blue back at 1, one tick before the reset state
C32_Witness ==
    /\ state = {"rainbow"}
    /\ max_brightness = 2
    /\ bstate = 5
    /\ brightness[COLOR_RED] = 2
    /\ brightness[COLOR_GREEN] = 0
    /\ brightness[COLOR_BLUE] = 1
    /\ interval["rainbow"] = PULSE_VALUE_PER_NS

\* C33 as stated: a Rainbow tick taken at a step in 0 .. 5 with Red, Green
\* and Blue within 0 .. max_brightness leaves the three within
\* 0 .. max_brightness
C33_WheelInRange ==
    [][ ( /\ rgbw_rb_hrtimer_callback
          /\ "rainbow" \in state
          /\ bstate \in 0 .. 5
          /\ \A c \in {COLOR_RED, COLOR_GREEN, COLOR_BLUE} :
                brightness[c] \in 0 .. max_brightness )
        => \A c \in {COLOR_RED, COLOR_GREEN, COLOR_BLUE} :
                brightness'[c] \in 0 .. max_brightness
      ]_vars

\* C34: whatever the step before it, a tick of the active effect leaves
\* the step in 0 .. 1 for Blink, in 0 .. 3 for Heartbeat and in 0 .. 5 for
\* Rainbow; a Heartbeat tick that finds a step of 3 or more leaves step 0
\* and forwards its timer by 700 ms
C34_StepInRange ==
    [][ /\ (rgbw_blink_hrtimer_callback /\ "blink" \in state)
               => bstate' \in 0 .. 1
        /\ (rgbw_hb_hrtimer_callback /\ "heartbeat" \in state)
               => /\ bstate' \in 0 .. 3
                  /\ (bstate >= 3) =>
                        /\ bstate' = 0
                        /\ interval'["heartbeat"] = 700000000
        /\ (rgbw_rb_hrtimer_callback /\ "rainbow" \in state)
               => bstate' \in 0 .. 5
      ]_vars

\* Heartbeat, activated on the device whose probe left the step at 255,
\* has ticked: the step is 0, the colour is out and the timer was
\* forwarded by 700 ms
C34_Witness ==
    /\ state = {"heartbeat"}
    /\ pcolor = 255
    /\ bstate = 0
    /\ brightness = Zeros
    /\ rgbw_values = Color(3, 1, 0, 2)
    /\ interval["heartbeat"] = HB_LONG_NS

====
